---- MODULE Spec2Model ----
(***************************************************************************)
(* FROST-controlled provenance-mark chain (src/src/pm_chain.rs) over the   *)
(* threshold group of src/src/frost_group.rs and the link derivation of    *)
(* src/src/kdf.rs and src/src/message.rs.                                  *)
(*                                                                         *)
(* Hashes (SHA-256, HKDF) are modelled as injective constructors: the      *)
(* value of a hash is the tagged tuple of its inputs plus the length it    *)
(* is truncated to.  Round-1 randomness is modelled by a ceremony counter: *)
(* every Round-1 run draws nonces no other run has drawn.                  *)
(* An Option<T> is the empty sequence (None) or a one-element sequence.    *)
(***************************************************************************)
EXTENDS Integers, Sequences, FiniteSets, TLC

VARIABLES
    chain,      \* Option<FrostPmChain>: None until new_genesis succeeds
    marks,      \* the marks returned to the caller so far, in order
    keyed,      \* number of marks appended by append_mark_with_key
    rng,        \* number of Round-1 ceremonies whose values are in use
    signedWith, \* Option: the first message the stored nonces signed
    held,       \* Option: the Round-1 output a caller of the group holds
    call,       \* the last call made on the group directly
    config,     \* Option<FrostGroupConfig>: the last config constructed
    made,       \* the last call that constructs a config or a group
    group,      \* Option<FrostGroup>: the last group constructed
    probe,      \* two inputs of a pure function, and its two outputs
    last        \* the last call: operation, outcome, chain before, whether
                \* it follows a date rejection (recovering), and whether a
                \* stored nonce signed a second message in it (twoMsgs)

vars ==
    <<chain, marks, keyed, rng, signedWith, held, call, config, made, group,
      probe, last>>

(***************************** bounds **************************************)
\* number of Round-1 ceremonies the model lets the group run
MaxCeremonies == 5
\* number of marks the model lets append_mark_with_key append
MaxKeyed == 1
\* dates are DateTime<Utc> instants 0..MaxDate, in ticks
MaxDate == 4
\* ticks per second: date.timestamp() drops the sub-second part
TicksPerSecond == 2
\* last second the mark encoding can serialize
MaxMarkSecond == 1
\* small sequence numbers a caller passes in: 0..MaxSeq
MaxSeq == 1

(***************************** the group ***********************************)
\* the 2-of-3 group of tests/frost_pm_chain.rs
RosterNames == <<"alice", "bob", "charlie">>

min_signers == 2

max_signers == Len(RosterNames)

has_participant(name) == \E i \in 1..Len(RosterNames) : RosterNames[i] = name

\* identifiers are assigned by roster position, starting at 1
name_to_id(name) == CHOOSE i \in 1..Len(RosterNames) : RosterNames[i] = name

Range(s) == {s[i] : i \in 1..Len(s)}

\* signer lists a caller passes: too short, exact threshold, a second quorum,
\* everybody, a repeated name, a name outside the roster
SignerLists ==
    { <<"alice">>,
      <<"alice", "bob">>,
      <<"alice", "bob", "charlie">>,
      <<"alice", "alice">>,
      <<"alice", "mallory">> }

Resolutions == {"Low", "Medium", "Quartile", "High"}

\* the resolutions a chain is started with: the shortest and the longest link
GenesisResolutions == {"Low", "High"}

Dates == 0..MaxDate

\* dates a caller passes to an append: around the last accepted date, and
\* the latest date of the model
\* dates a caller starts a chain at: one with a sub-second part, and the
\* latest date of the model
GenesisDates == {1, MaxDate}

DateChoices(c) ==
    {c.last_date - 1, c.last_date, c.last_date + 1, MaxDate} \cap Dates

ObjHashes == {"h1"}

None == <<>>

Some(x) == <<x>>

(************************** kdf.rs, message.rs *****************************)
link_len(res) ==
    CASE res = "Low" -> 4
      [] res = "Medium" -> 8
      [] res = "Quartile" -> 16
      [] res = "High" -> 32

res_code(res) ==
    CASE res = "Low" -> 0
      [] res = "Medium" -> 1
      [] res = "Quartile" -> 2
      [] res = "High" -> 3

\* HKDF-SHA256(salt = sha256(salt_msg), ikm = sig_bytes), expanded to len bytes
hkdf_next(len, sig_bytes, salt_msg, info) ==
    <<"hkdf", len, sig_bytes, salt_msg, info>>

\* the ascending sequence of the elements of a finite set of integers
RECURSIVE SortedSeq(_)
SortedSeq(S) ==
    IF S = {} THEN <<>>
    ELSE LET m == CHOOSE x \in S : \A y \in S : x <= y
         IN  <<m>> \o SortedSeq(S \ {m})

\* a root that would hash the identifiers alone
commitments_root_ids(commitments) ==
    <<"root", SortedSeq(DOMAIN commitments)>>

\* sha256 over the (id, commitment) pairs in ascending id order
commitments_root(commitments) ==
    LET ids == SortedSeq(DOMAIN commitments)
    IN  <<"root", [i \in 1..Len(ids) |-> <<ids[i], commitments[ids[i]]>>]>>

\* a derivation that would keep the whole 32-byte digest
kdf_next_untruncated(chain_id, seq, root, res) ==
    <<"kdf", 32, chain_id, seq, root>>

\* sha256("PM:v1/next" || chain_id || seq || root), cut to link_len(res)
kdf_next(chain_id, seq, root, res) ==
    <<"kdf", link_len(res), chain_id, seq, root>>

genesis_message(res, min, max, ids) ==
    <<"GENESIS", res_code(res), min, max, SortedSeq(Range(ids))>>

\* the message carries timestamp_millis: the full instant
hash_message(id, seq, date, obj_hash) ==
    <<"HASH", id, seq, date, obj_hash>>

(***************************** frost_group.rs ******************************)
\* first index of a sequence of outcomes that is not "ok", 0 if none
FirstBad(outs) ==
    IF \A i \in 1..Len(outs) : outs[i] = "ok" THEN 0
    ELSE CHOOSE i \in 1..Len(outs) :
            /\ outs[i] # "ok"
            /\ \A j \in 1..(i - 1) : outs[j] = "ok"

\* Round 1 of ceremony s: one commitment per identifier, one nonce per name
Commitments(signers, s) ==
    [id \in {name_to_id(n) : n \in Range(signers)} |-> <<"commitment", s, id>>]

Nonces(signers, s) ==
    [n \in Range(signers) |-> <<"nonce", s, n>>]

\* a Round 1 that would ask for more than min_signers names
round1_commit_above(signers, s) ==
    IF Len(signers) <= min_signers
    THEN [err |-> "InsufficientSigners", commitments |-> <<>>,
          nonces |-> <<>>, drawn |-> 0]
    ELSE IF \E i \in 1..Len(signers) : ~has_participant(signers[i])
    THEN [err |-> "UnknownParticipant", commitments |-> <<>>,
          nonces |-> <<>>, drawn |-> 0]
    ELSE [err |-> "ok",
          commitments |-> Commitments(signers, s),
          nonces |-> Nonces(signers, s), drawn |-> Len(signers)]

\* a Round 1 that would look each name up only when its turn comes
round1_commit_lazy(signers, s) ==
    IF Len(signers) < min_signers
    THEN [err |-> "InsufficientSigners", commitments |-> <<>>,
          nonces |-> <<>>, drawn |-> 0]
    ELSE IF \E i \in 1..Len(signers) : ~has_participant(signers[i])
    THEN [err |-> "UnknownParticipant", commitments |-> <<>>,
          nonces |-> <<>>,
          drawn |-> FirstBad([i \in 1..Len(signers) |->
                                IF has_participant(signers[i]) THEN "ok"
                                ELSE "UnknownParticipant"]) - 1]
    ELSE [err |-> "ok",
          commitments |-> Commitments(signers, s),
          nonces |-> Nonces(signers, s), drawn |-> Len(signers)]

\* round_1_commit: the length check, the roster check of every name, then
\* one nonce and commitment per listed name; drawn counts the nonces generated
round1_commit(signers, s) ==
    IF Len(signers) < min_signers
    THEN [err |-> "InsufficientSigners", commitments |-> <<>>,
          nonces |-> <<>>, drawn |-> 0]
    ELSE IF \E i \in 1..Len(signers) : ~has_participant(signers[i])
    THEN [err |-> "UnknownParticipant", commitments |-> <<>>,
          nonces |-> <<>>, drawn |-> 0]
    ELSE [err |-> "ok",
          commitments |-> Commitments(signers, s),
          nonces |-> Nonces(signers, s), drawn |-> Len(signers)]

\* the ceremony whose Round 1 made a commitment map; the group commitment R
\* of the signature is as fresh as that ceremony's nonces
SessionOfCommitments(commitments) ==
    commitments[CHOOSE id \in DOMAIN commitments : TRUE][2]

\* a turn that would sign whatever the number of commitments in the package
Round2Turn_uncounted(name, commitments, nonces) ==
    IF ~has_participant(name) THEN "UnknownParticipant"
    ELSE IF name \notin DOMAIN nonces THEN "panic"
    ELSE IF name_to_id(name) \notin DOMAIN commitments THEN "MissingCommitment"
    ELSE IF commitments[name_to_id(name)][2] # nonces[name][2]
         THEN "IncorrectCommitment"
    ELSE "ok"

\* what the i-th turn of the Round-2 loop does
Round2Turn(name, commitments, nonces) ==
    IF ~has_participant(name) THEN "UnknownParticipant"
    ELSE IF name \notin DOMAIN nonces THEN "panic"
    ELSE IF Cardinality(DOMAIN commitments) < min_signers
         THEN "IncorrectNumberOfCommitments"
    ELSE IF name_to_id(name) \notin DOMAIN commitments THEN "MissingCommitment"
    ELSE IF commitments[name_to_id(name)][2] # nonces[name][2]
         THEN "IncorrectCommitment"
    ELSE "ok"

\* a Round-2 that would return a value although aggregation failed
round2_sign_unaggregated(signers, commitments, nonces, message) ==
    IF Len(signers) < min_signers
    THEN [err |-> "InsufficientSigners", used |-> {}, sig |-> <<>>]
    ELSE
      LET outs == [i \in 1..Len(signers) |->
                      Round2Turn(signers[i], commitments, nonces)]
          bad == FirstBad(outs)
      IN  IF bad # 0
          THEN [err |-> outs[bad],
                used |-> {signers[j] : j \in 1..(bad - 1)},
                sig |-> <<>>]
          ELSE [err |-> "ok", used |-> Range(signers),
                sig |-> IF {name_to_id(n) : n \in Range(signers)}
                              = DOMAIN commitments
                        THEN <<"sig", SessionOfCommitments(commitments),
                               message>>
                        ELSE <<"shares", SessionOfCommitments(commitments),
                               message>>]

\* err: the outcome; used: the names whose nonce computed a signature share
round2_sign(signers, commitments, nonces, message) ==
    IF Len(signers) < min_signers
    THEN [err |-> "InsufficientSigners", used |-> {}, sig |-> <<>>]
    ELSE
      LET outs == [i \in 1..Len(signers) |->
                      Round2Turn(signers[i], commitments, nonces)]
          bad == FirstBad(outs)
      IN  IF bad # 0
          THEN [err |-> outs[bad],
                used |-> {signers[j] : j \in 1..(bad - 1)},
                sig |-> <<>>]
          ELSE IF {name_to_id(n) : n \in Range(signers)} # DOMAIN commitments
          THEN [err |-> "AggregationFailed", used |-> Range(signers),
                sig |-> <<>>]
          ELSE [err |-> "ok", used |-> Range(signers),
                sig |-> <<"sig", SessionOfCommitments(commitments), message>>]

\* create_signing_package: the commitments sign holds by name, keyed by the
\* identifier of each listed signer
create_signing_package(signers, commitments_by_name) ==
    [id \in {name_to_id(n) : n \in Range(signers)} |->
        commitments_by_name[CHOOSE n \in Range(signers) : name_to_id(n) = id]]

\* a one-shot ceremony that would turn a repeated name away
sign_distinct(message, signers, s) ==
    IF Len(signers) < min_signers
    THEN [err |-> "InsufficientSigners", sig |-> <<>>, ran |-> 0,
          drawn |-> 0, used |-> {}]
    ELSE IF \E i \in 1..Len(signers) : ~has_participant(signers[i])
    THEN [err |-> "UnknownParticipant", sig |-> <<>>, ran |-> 0,
          drawn |-> 0, used |-> {}]
    ELSE IF Cardinality(Range(signers)) # Len(signers)
    THEN [err |-> "DuplicateSigner", sig |-> <<>>, ran |-> 0,
          drawn |-> 0, used |-> {}]
    ELSE
      LET nonces_map == Nonces(signers, s)
          commitments_map == [n \in Range(signers) |->
                                 <<"commitment", s, name_to_id(n)>>]
          package == create_signing_package(signers, commitments_map)
          outs == [i \in 1..Len(signers) |->
                      Round2Turn(signers[i], package, nonces_map)]
          bad == FirstBad(outs)
      IN  IF bad # 0
          THEN [err |-> outs[bad], sig |-> <<>>, ran |-> 0,
                drawn |-> Len(signers),
                used |-> {signers[j] : j \in 1..(bad - 1)}]
          ELSE [err |-> "ok",
                sig |-> <<"sig", SessionOfCommitments(package), message>>,
                ran |-> 1, drawn |-> Len(signers), used |-> Range(signers)]

\* the one-shot ceremony, with nonces of ceremony s: the length check, the
\* roster check, Round 1 into maps keyed by name, the signing package keyed
\* by identifier, the Round-2 loop, aggregate_signature over the shares of
\* the listed signers. ran counts the ceremonies whose values outlive the
\* call, drawn the nonces generated, used the names that computed a share
sign(message, signers, s) ==
    IF Len(signers) < min_signers
    THEN [err |-> "InsufficientSigners", sig |-> <<>>, ran |-> 0,
          drawn |-> 0, used |-> {}]
    ELSE IF \E i \in 1..Len(signers) : ~has_participant(signers[i])
    THEN [err |-> "UnknownParticipant", sig |-> <<>>, ran |-> 0,
          drawn |-> 0, used |-> {}]
    ELSE
      LET nonces_map == Nonces(signers, s)
          commitments_map == [n \in Range(signers) |->
                                 <<"commitment", s, name_to_id(n)>>]
          package == create_signing_package(signers, commitments_map)
          outs == [i \in 1..Len(signers) |->
                      Round2Turn(signers[i], package, nonces_map)]
          bad == FirstBad(outs)
      IN  IF bad # 0
          THEN [err |-> outs[bad], sig |-> <<>>, ran |-> 0,
                drawn |-> Len(signers),
                used |-> {signers[j] : j \in 1..(bad - 1)}]
          ELSE IF {name_to_id(n) : n \in Range(signers)} # DOMAIN package
          THEN [err |-> "AggregationFailed", sig |-> <<>>, ran |-> 0,
                drawn |-> Len(signers), used |-> Range(signers)]
          ELSE [err |-> "ok",
                sig |-> <<"sig", SessionOfCommitments(package), message>>,
                ran |-> 1, drawn |-> Len(signers), used |-> Range(signers)]

\* a verification that would not look at the message
verify_any(message, signature) ==
    /\ signature # <<>>
    /\ signature[1] = "sig"

\* VerifyingKey::verify: the signature is a group signature over the message
verify(message, signature) ==
    /\ signature # <<>>
    /\ signature[1] = "sig"
    /\ signature[3] = message

(************************ the mark primitive ********************************)
\* the largest sequence number (u32::MAX); the largest integer the checker
\* represents stands for it, and no sum is ever formed above it
U32Max == 2147483647

\* DateTime::timestamp(): whole seconds, the sub-second part dropped
timestamp(date) == date \div TicksPerSecond

\* byte length of a link key
KeyLen(key) == key[2]

\* the largest sequence number a mark of a resolution serializes: two bytes
\* at Low, four bytes above it
SeqMax(res) == IF res = "Low" THEN 65535 ELSE U32Max

\* a constructor that would store the key as the chain id
ProvenanceMarkNew_keyed(res, key, next_key, chain_id, seq, pm_date) ==
    IF \/ KeyLen(key) # link_len(res)
       \/ KeyLen(next_key) # link_len(res)
       \/ KeyLen(chain_id) # link_len(res)
       \/ pm_date > MaxMarkSecond
       \/ seq > SeqMax(res)
    THEN [err |-> "MarkError", mark |-> None]
    ELSE [err |-> "ok",
          mark |-> Some([res |-> res, key |-> key, next_key |-> next_key,
                         chain_id |-> key, seq |-> seq, date |-> pm_date])]

\* ProvenanceMark::new: rejects links of the wrong length, and dates and
\* sequence numbers its encoding cannot serialize; the mark stores the date
\* in seconds
ProvenanceMarkNew(res, key, next_key, chain_id, seq, pm_date) ==
    IF \/ KeyLen(key) # link_len(res)
       \/ KeyLen(next_key) # link_len(res)
       \/ KeyLen(chain_id) # link_len(res)
       \/ pm_date > MaxMarkSecond
       \/ seq > SeqMax(res)
    THEN [err |-> "MarkError", mark |-> None]
    ELSE [err |-> "ok",
          mark |-> Some([res |-> res, key |-> key, next_key |-> next_key,
                         chain_id |-> chain_id, seq |-> seq,
                         date |-> pm_date])]

\* ProvenanceMark::precedes, as far as the links go
precedes(m, n) == m.next_key = n.key

(***************************** pm_chain.rs *********************************)
\* the result of one call: the chain afterwards, the mark returned on
\* success, the number of Round-1 ceremonies whose values outlive the call,
\* and the stored nonces handed to Round-2 (by name) with the message they
\* signed
Result(err, c, mark, ran, used, msg) ==
    [err |-> err, chain |-> c, mark |-> mark, ran |-> ran,
     used |-> used, msg |-> msg, sig |-> <<>>, shares |-> {}]

\* a result with the signature its ceremony produced and the names that
\* contributed a share to it
Signed(r, sig, shares) == [r EXCEPT !.sig = sig, !.shares = shares]

\* the error text of the date check
DateError == "date monotonicity violated"

\* a date check that would also turn away a date equal to the last one
date_regressed_or_equal(date, last_date) == date <= last_date

\* a date check that would turn nothing away
date_unchecked(date, last_date) == FALSE

\* the date check of both appends: date < self.meta.last_date
date_regressed(date, last_date) == date < last_date

\* the candidate next key is what the previous mark committed to: the
\* previous mark rebuilt with it has the previous mark's hash
prev_commitment_matches(prev, candidate_next_key) ==
    [prev EXCEPT !.next_key = candidate_next_key] = prev

\* a chain that would record the hash of key_0 as its id
ChainMeta_hashed(res, id, seq_next, last_date) ==
    [res |-> res, id |-> <<"sha256", KeyLen(id), id>>, seq_next |-> seq_next,
     last_date |-> last_date, current_receipt |-> None,
     current_nonces |-> None]

\* the chain as new_genesis builds it: id == key_0, nothing pending
ChainMeta(res, id, seq_next, last_date) ==
    [res |-> res, id |-> id, seq_next |-> seq_next, last_date |-> last_date,
     current_receipt |-> None, current_nonces |-> None]

new_genesis(res, genesis_signers, date0, obj_hash, s) ==
    IF Len(genesis_signers) < min_signers
    THEN Result("insufficient signers", None, None, 0, {}, <<>>)
    ELSE
      LET ll == link_len(res)
          ids == [i \in 1..Len(RosterNames) |-> name_to_id(RosterNames[i])]
          m0 == genesis_message(res, min_signers, max_signers, ids)
          sig0 == sign(m0, genesis_signers, s)
          key0 == hkdf_next(ll, sig0.sig, m0, "KDF:key0")
          id == key0
          m_hash0 == hash_message(id, 0, date0, obj_hash)
          sig_hash0 == sign(m_hash0, genesis_signers, s + 1)
          next_key0 == hkdf_next(ll, sig_hash0.sig, m_hash0, "KDF:next")
          mark0 == ProvenanceMarkNew(res, key0, next_key0, id, 0,
                                     timestamp(date0))
      IN  IF sig0.err # "ok"
          THEN Result("Failed to sign genesis message", None, None,
                      sig0.ran, {}, <<>>)
          ELSE IF sig_hash0.err # "ok"
          THEN Result("Failed to sign hash message", None, None,
                      0, {}, <<>>)
          ELSE IF mark0.err # "ok"
          THEN Result("MarkError", None, None, 0, {}, <<>>)
          ELSE Signed(Result("ok", Some(ChainMeta(res, id, 1, date0)),
                             mark0.mark, 2, {}, <<>>),
                      sig_hash0.sig, sig0.used \cap sig_hash0.used)

\* seq + 1 on a u32: past U32Max the build either aborts (overflow check)
\* or wraps to 0
Succ32(seq, wrap) ==
    IF seq < U32Max THEN [panic |-> FALSE, val |-> seq + 1]
    ELSE IF wrap THEN [panic |-> FALSE, val |-> 0]
    ELSE [panic |-> TRUE, val |-> 0]

append_mark_with_key(c, signers, date, obj_hash, key_i, seq_i, s, wrap) ==
    IF Len(signers) < min_signers
    THEN Result("insufficient signers", Some(c), None, 0, {}, <<>>)
    ELSE IF date_regressed(date, c.last_date)
    THEN Result(DateError, Some(c), None, 0, {}, <<>>)
    ELSE
      LET ll == link_len(c.res)
          m_hash_i == hash_message(c.id, seq_i, date, obj_hash)
          sig_i == sign(m_hash_i, signers, s)
          next_key_i == hkdf_next(ll, sig_i.sig, m_hash_i, "KDF:next")
          mark_i == ProvenanceMarkNew(c.res, key_i, next_key_i, c.id, seq_i,
                                      timestamp(date))
          nxt == Succ32(seq_i, wrap)
      IN  IF sig_i.err # "ok"
          THEN Result("Failed to sign hash message", Some(c), None,
                      sig_i.ran, {}, <<>>)
          ELSE IF mark_i.err # "ok"
          THEN Result("MarkError", Some(c), None, 0, {}, <<>>)
          ELSE IF nxt.panic
          THEN Result("panic", Some(c), None, 0, {}, <<>>)
          ELSE Signed(Result("ok",
                             Some([c EXCEPT !.seq_next = nxt.val,
                                            !.last_date = date]),
                             mark_i.mark, 1, {}, <<>>),
                      sig_i.sig, sig_i.used)

\* a precommit that would store the receipt and hand the nonces away
precommit_next_mark_receipt_only(c, participants, seq_next, s) ==
    IF Len(participants) < min_signers
    THEN Result("insufficient signers for precommit", Some(c), None, 0,
                {}, <<>>)
    ELSE
      LET r1 == round1_commit(participants, s)
          root_next == commitments_root(r1.commitments)
          ids == [i \in 1..Len(participants) |-> name_to_id(participants[i])]
          receipt == [seq |-> seq_next, root |-> root_next, ids |-> ids,
                      commitments |-> r1.commitments]
      IN  IF r1.err # "ok"
          THEN Result("Failed to collect Round-1 commitments", Some(c), None,
                      0, {}, <<>>)
          ELSE Result("ok",
                      Some([c EXCEPT !.current_receipt = Some(receipt)]),
                      None, 1, {}, <<>>)

precommit_next_mark(c, participants, seq_next, s) ==
    IF Len(participants) < min_signers
    THEN Result("insufficient signers for precommit", Some(c), None, 0,
                {}, <<>>)
    ELSE
      LET r1 == round1_commit(participants, s)
          root_next == commitments_root(r1.commitments)
          ids == [i \in 1..Len(participants) |-> name_to_id(participants[i])]
          receipt == [seq |-> seq_next, root |-> root_next, ids |-> ids,
                      commitments |-> r1.commitments]
      IN  IF r1.err # "ok"
          THEN Result("Failed to collect Round-1 commitments", Some(c), None,
                      0, {}, <<>>)
          ELSE Result("ok",
                      Some([c EXCEPT !.current_receipt = Some(receipt),
                                     !.current_nonces = Some(r1.nonces)]),
                      None, 1, {}, <<>>)

\* checks that would look at the sequence number before the date
append_checks_seq_first(c, participants, seq, date) ==
    IF Len(participants) < min_signers THEN "insufficient signers"
    ELSE IF seq # c.seq_next THEN "sequence number mismatch"
    ELSE IF date_regressed(date, c.last_date) THEN DateError
    ELSE IF c.current_receipt = None THEN "No precommit found"
    ELSE IF c.current_nonces = None THEN "No nonces found"
    ELSE IF c.current_receipt[1].seq # seq THEN "receipt sequence mismatch"
    ELSE "ok"

\* checks that would look at the date before they count the signers
append_checks_date_first(c, participants, seq, date) ==
    IF date_regressed(date, c.last_date) THEN DateError
    ELSE IF Len(participants) < min_signers THEN "insufficient signers"
    ELSE IF seq # c.seq_next THEN "sequence number mismatch"
    ELSE IF c.current_receipt = None THEN "No precommit found"
    ELSE IF c.current_nonces = None THEN "No nonces found"
    ELSE IF c.current_receipt[1].seq # seq THEN "receipt sequence mismatch"
    ELSE "ok"

\* the checks of append_mark_stateless before it signs: the first that
\* fails names the error, "ok" if none does
append_checks(c, participants, seq, date) ==
    IF Len(participants) < min_signers THEN "insufficient signers"
    ELSE IF date_regressed(date, c.last_date)
         THEN DateError
    ELSE IF seq # c.seq_next THEN "sequence number mismatch"
    ELSE IF c.current_receipt = None THEN "No precommit found"
    ELSE IF c.current_nonces = None THEN "No nonces found"
    ELSE IF c.current_receipt[1].seq # seq THEN "receipt sequence mismatch"
    ELSE "ok"

\* steps 2 to 9 of append_mark_stateless: Round-2 with the stored receipt and
\* nonces, the precommit for seq + 1, the mark, the state update
append_sign_and_build(c, participants, seq, date, obj_hash, s, wrap) ==
    LET receipt == c.current_receipt[1]
        stored_nonces == c.current_nonces[1]
        key_seq == kdf_next(c.id, seq, receipt.root, c.res)
        message == hash_message(c.id, seq, date, obj_hash)
        r2 == round2_sign(participants, receipt.commitments, stored_nonces,
                          message)
        nxt == Succ32(seq, wrap)
        pre == precommit_next_mark(c, participants, nxt.val, s)
        c1 == pre.chain[1]
        next_key_seq == kdf_next(c.id, nxt.val, c1.current_receipt[1].root,
                                 c.res)
        mark == ProvenanceMarkNew(c.res, key_seq, next_key_seq, c.id, seq,
                                  timestamp(date))
    IN  IF r2.err = "panic"
        THEN Result("panic", Some(c), None, 0, r2.used, message)
        ELSE IF r2.err # "ok"
        THEN Result("Failed to complete Round-2 signing", Some(c), None, 0,
                    r2.used, message)
        ELSE IF nxt.panic
        THEN Result("panic", Some(c), None, 0, r2.used, message)
        ELSE IF pre.err # "ok"
        THEN Result(pre.err, pre.chain, None, pre.ran, r2.used, message)
        ELSE IF mark.err # "ok"
        THEN Result("MarkError", Some(c1), None, 1, r2.used, message)
        ELSE Signed(Result("ok",
                           Some([c1 EXCEPT !.seq_next = nxt.val,
                                           !.last_date = date]),
                           mark.mark, 1, r2.used, message),
                    r2.sig, r2.used)

\* an append that would drop the pending receipt and nonces when a check
\* turns the call away
append_mark_dropping(c, participants, seq, date, obj_hash, s, wrap) ==
    LET e == append_checks(c, participants, seq, date)
    IN  IF e # "ok"
        THEN Result(e, Some([c EXCEPT !.current_receipt = None,
                                      !.current_nonces = None]),
                    None, 0, {}, <<>>)
        ELSE append_sign_and_build(c, participants, seq, date, obj_hash, s,
                                   wrap)

append_mark_stateless(c, participants, seq, date, obj_hash, s, wrap) ==
    LET e == append_checks(c, participants, seq, date)
    IN  IF e # "ok"
        THEN Result(e, Some(c), None, 0, {}, <<>>)
        ELSE append_sign_and_build(c, participants, seq, date, obj_hash, s,
                                   wrap)

(***************************** the caller **********************************)
\* sequence numbers a caller passes: small ones, the one the chain expects,
\* and the one before the largest
SeqChoices(c) == (0..MaxSeq) \cup {c.seq_next} \cup {U32Max - 1}

WrapChoices(seq) == IF seq = U32Max THEN BOOLEAN ELSE {FALSE}

Quorum == <<"alice", "bob">>

\* <<signers, key_i, seq_i>> a caller passes to append_mark_with_key: each
\* signer list with the next key of the last mark and the expected sequence
\* number; a quorum with that key and the other sequence numbers, and with a
\* key of the wrong length
KeyedChoices(c) ==
    {<<p, marks[Len(marks)].next_key, c.seq_next>> : p \in SignerLists}
    \cup {<<Quorum, marks[Len(marks)].next_key, seq_i>> :
             seq_i \in SeqChoices(c)}
    \cup {<<Quorum, <<"caller", 0>>, c.seq_next>>}

\* <<participants, seq>> a caller passes to append_mark_stateless: each signer
\* list with the expected sequence number, a quorum with the others
StatelessChoices(c) ==
    {<<p, c.seq_next>> : p \in SignerLists}
    \cup {<<Quorum, seq>> : seq \in SeqChoices(c)}

\* <<participants, seq_next>> a caller passes to precommit_next_mark: each
\* signer list for the expected sequence number, and a quorum for the others
PrecommitChoices(c) ==
    {<<p, c.seq_next>> : p \in SignerLists}
    \cup {<<Quorum, seq_next>> : seq_next \in SeqChoices(c)}

\* what is remembered of a call: the operation, its outcome, the chain before
\* it, whether it follows an append_mark_stateless turned away for its date,
\* whether it finds pending the receipt that was pending when the
\* append_mark_stateless before it failed, the stored nonces having
\* computed a share (retry), the signature of its
\* ceremony and who contributed shares to it, and whether a stored nonce that
\* signed one message signed another in it
Call(op, r, pre) ==
    [op |-> op, err |-> r.err, pre |-> pre,
     recovering |-> last.op = "append_mark_stateless" /\ last.err = DateError,
     retry |-> /\ last.op = "append_mark_stateless"
               /\ last.err # "ok"
               /\ signedWith # None
               /\ pre # None
               /\ pre[1].current_receipt # None
               /\ pre[1].current_receipt = last.pre[1].current_receipt,
     sig |-> r.sig, shares |-> r.shares,
     twoMsgs |-> /\ r.used # {}
                 /\ signedWith # None
                 /\ signedWith # Some(r.msg)]

\* bookkeeping of the stored nonces: a precommit stores new ones; a Round-2
\* that computes a share with the stored ones makes them sign its message
NonceBookkeeping(r, pre) ==
    signedWith' =
        IF r.chain # None /\ r.chain[1].current_nonces # pre.current_nonces
        THEN None
        ELSE IF r.used # {} /\ signedWith = None THEN Some(r.msg)
        ELSE signedWith

\* no call on the group yet
NoCall ==
    [op |-> "none", err |-> "ok", signers |-> <<>>, commitments |-> <<>>,
     nonces |-> <<>>, drawn |-> 0, used |-> {}, sig |-> <<>>, msg |-> <<>>,
     again |-> FALSE]

(************************** frost_group_config ******************************)
\* the largest threshold a caller asks for
MaxThreshold == 4

\* the names of the model in the order of BTreeMap<String, _> keys (byte
\* order: capitals first)
NameOrder == <<"Alice", "Bob", "Eve", "alice", "bob", "charlie">>

\* the keys of a map keyed by name, as the map iterates them
Keys(names) == SelectSeq(NameOrder, LAMBDA n : n \in names)

ErrTooMany == "min_signers cannot be greater than max_signers"

ErrZero == "min_signers must be at least 1"

\* the two threshold errors of FrostGroupConfig::new
InvalidThreshold == {ErrTooMany, ErrZero}

\* the maps the constructor's loop builds: the i-th name gets identifier i;
\* participants is keyed by name, so a later insert of a name replaces the
\* identifier of an earlier one; id_to_name is keyed by identifier
Participants(participant_names) ==
    [n \in Range(participant_names) |->
        CHOOSE i \in 1..Len(participant_names) :
            /\ participant_names[i] = n
            /\ \A j \in (i + 1)..Len(participant_names) :
                   participant_names[j] # n]

IdToName(participant_names) ==
    [i \in 1..Len(participant_names) |-> participant_names[i]]

\* a constructor that would not refuse a threshold of zero
FrostGroupConfigNew_zero(threshold, participant_names, charter) ==
    IF threshold > Len(participant_names)
    THEN [err |-> ErrTooMany, config |-> None]
    ELSE [err |-> "ok",
          config |-> Some([min_signers |-> threshold,
                           participants |-> Participants(participant_names),
                           id_to_name |-> IdToName(participant_names),
                           charter |-> charter])]

\* FrostGroupConfig::new
FrostGroupConfigNew(threshold, participant_names, charter) ==
    IF threshold > Len(participant_names)
    THEN [err |-> ErrTooMany, config |-> None]
    ELSE IF threshold = 0
    THEN [err |-> ErrZero, config |-> None]
    ELSE [err |-> "ok",
          config |-> Some([min_signers |-> threshold,
                           participants |-> Participants(participant_names),
                           id_to_name |-> IdToName(participant_names),
                           charter |-> charter])]

config_min_signers(cfg) == cfg.min_signers

config_max_signers(cfg) == Cardinality(DOMAIN cfg.participants)

\* the identifiers, in the iteration order of the map keyed by name
participant_ids(cfg) ==
    [i \in 1..Cardinality(DOMAIN cfg.participants) |->
        cfg.participants[Keys(DOMAIN cfg.participants)[i]]]

participant_name(cfg, id) ==
    IF id \in DOMAIN cfg.id_to_name THEN cfg.id_to_name[id] ELSE "Unknown"

\* the names the string joins with ", ", in the order it joins them
participant_names_string(cfg) == Keys(DOMAIN cfg.participants)

\* FrostGroup::participant_names, of a group that holds the config
participant_names(cfg) == Keys(DOMAIN cfg.participants)

\* the largest identifier a key package is supplied for
MaxId == 4

\* the identifiers of the roster, as config.participants().values()
RosterIds(cfg) == {cfg.participants[n] : n \in DOMAIN cfg.participants}

ErrExpected == "Expected n key packages, got k"

ErrMissing == "Missing key package for participant"

\* a constructor that would only count the key packages
new_from_key_material_counting(cfg, key_packages) ==
    IF Cardinality(key_packages) # config_max_signers(cfg)
    THEN [err |-> ErrExpected, group |-> None]
    ELSE [err |-> "ok",
          group |-> Some([config |-> cfg, key_packages |-> key_packages])]

\* FrostGroup::new_from_key_material; key_packages is the set of identifiers
\* that key the supplied BTreeMap<Identifier, KeyPackage>
new_from_key_material(cfg, key_packages) ==
    IF Cardinality(key_packages) # config_max_signers(cfg)
    THEN [err |-> ErrExpected, group |-> None]
    ELSE IF \E id \in RosterIds(cfg) : id \notin key_packages
    THEN [err |-> ErrMissing, group |-> None]
    ELSE [err |-> "ok",
          group |-> Some([config |-> cfg, key_packages |-> key_packages])]

\* FrostGroup::new_with_trusted_dealer: generate_with_dealer refuses fewer
\* than two signers and a threshold above their number, and otherwise deals
\* one share per identifier of participant_ids(); the key packages made of
\* the shares go to new_from_key_material
new_with_trusted_dealer(cfg) ==
    IF \/ config_min_signers(cfg) < 2
       \/ config_max_signers(cfg) < 2
       \/ config_min_signers(cfg) > config_max_signers(cfg)
    THEN [err |-> "generate_with_dealer", group |-> None, packages |-> {}]
    ELSE LET r == new_from_key_material(cfg, Range(participant_ids(cfg)))
         IN  [err |-> r.err, group |-> r.group,
              packages |-> Range(participant_ids(cfg))]

\* name lists a caller passes: empty, sorted, not sorted, with a repeat
NameLists ==
    { <<>>,
      <<"alice">>,
      <<"alice", "bob">>,
      <<"alice", "bob", "charlie">>,
      <<"charlie", "alice", "bob">>,
      <<"alice", "alice">>,
      <<"alice", "bob", "alice">> }

Charters == {"charter", ""}

NoConfigCall ==
    [op |-> "none", err |-> "ok", min_signers |-> 0, names |-> <<>>,
     charter |-> "", packages |-> {}]

\* no pure function is being looked at
NoProbe == [fn |-> "none", a |-> <<>>, b |-> <<>>, out |-> <<>>]

\* nothing has been constructed and nothing has been called
Fresh ==
    /\ chain = None
    /\ held = None
    /\ call = NoCall
    /\ config = None
    /\ made = NoConfigCall
    /\ group = None
    /\ marks = <<>>
    /\ keyed = 0
    /\ rng = 0
    /\ signedWith = None
    /\ last = [op |-> "none", err |-> "ok", pre |-> None,
               recovering |-> FALSE, retry |-> FALSE, sig |-> <<>>,
               shares |-> {}, twoMsgs |-> FALSE]

Init == Fresh /\ probe = NoProbe

NewGenesis ==
    /\ chain = None
    /\ rng + 2 <= MaxCeremonies
    /\ \E res \in GenesisResolutions, signers \in SignerLists,
          date0 \in GenesisDates,
          obj_hash \in ObjHashes :
          \E r \in {new_genesis(res, signers, date0, obj_hash, rng + 1)} :
              /\ chain' = r.chain
              /\ marks' = IF r.err = "ok" THEN <<r.mark[1]>> ELSE marks
              /\ rng' = rng + r.ran
              /\ last' = Call("new_genesis", r, chain)
    /\ UNCHANGED <<keyed, signedWith, held, call, config, made, group, probe>>

AppendMarkWithKey ==
    /\ chain # None
    /\ keyed < MaxKeyed
    /\ rng + 1 <= MaxCeremonies
    /\ \E date \in DateChoices(chain[1]), obj_hash \in ObjHashes,
          ks \in KeyedChoices(chain[1]) :
        \E wrap \in WrapChoices(ks[3]) :
          \E r \in {append_mark_with_key(chain[1], ks[1], date, obj_hash,
                                        ks[2], ks[3], rng + 1, wrap)} :
              /\ chain' = r.chain
              /\ marks' = IF r.err = "ok" THEN Append(marks, r.mark[1])
                          ELSE marks
              /\ rng' = rng + r.ran
              /\ keyed' = IF r.err = "ok" THEN keyed + 1 ELSE keyed
              /\ last' = Call("append_mark_with_key", r, chain)
    /\ UNCHANGED <<signedWith, held, call, config, made, group, probe>>

PrecommitNextMark ==
    /\ chain # None
    /\ rng + 1 <= MaxCeremonies
    /\ \E ps \in PrecommitChoices(chain[1]) :
          \E r \in {precommit_next_mark(chain[1], ps[1], ps[2], rng + 1)} :
              /\ chain' = r.chain
              /\ rng' = rng + r.ran
              /\ last' = Call("precommit_next_mark", r, chain)
              /\ NonceBookkeeping(r, chain[1])
    /\ UNCHANGED <<marks, keyed, held, call, config, made, group, probe>>

AppendMarkStateless ==
    /\ chain # None
    /\ rng + 1 <= MaxCeremonies
    /\ \E date \in DateChoices(chain[1]), obj_hash \in ObjHashes,
          ps \in StatelessChoices(chain[1]) :
        \E wrap \in WrapChoices(ps[2]) :
          \E r \in {append_mark_stateless(chain[1], ps[1], ps[2], date,
                                         obj_hash, rng + 1, wrap)} :
              /\ chain' = r.chain
              /\ marks' = IF r.err = "ok" THEN Append(marks, r.mark[1])
                          ELSE marks
              /\ rng' = rng + r.ran
              /\ last' = Call("append_mark_stateless", r, chain)
              /\ NonceBookkeeping(r, chain[1])
    /\ UNCHANGED <<keyed, held, call, config, made, group, probe>>

Next ==
    \/ NewGenesis
    \/ AppendMarkWithKey
    \/ PrecommitNextMark
    \/ AppendMarkStateless

Spec == Init /\ [][Next]_vars

(********************* the group, called directly **************************)
\* signer lists a caller passes to the group: those of the chain's callers,
\* an unknown name alone, and a quorum without alice
GroupSignerLists ==
    SignerLists \cup {<<"mallory">>, <<"bob", "charlie">>,
                      <<"alice", "alice", "bob">>}

Messages == {"m1", "m2"}

\* the nonce maps a caller can pass to Round-2: the one Round-1 returned, or
\* that one with the entry of one name left out; the caller keeps the maps
\* (round_2_sign borrows them), and passed pairs each name whose nonce has
\* computed a signature share in a Round-2 with the message it was for
NonceViews(nonces) ==
    {[n \in D |-> nonces[n]] :
        D \in {DOMAIN nonces} \cup {DOMAIN nonces \ {x} : x \in DOMAIN nonces}}

Round1Commit ==
    /\ rng + 1 <= MaxCeremonies
    /\ \E signers \in GroupSignerLists :
          \E r \in {round1_commit(signers, rng + 1)} :
              /\ held' = IF r.err = "ok"
                         THEN Some([commitments |-> r.commitments,
                                    nonces |-> r.nonces, passed |-> {}])
                         ELSE held
              /\ rng' = IF r.err = "ok" THEN rng + 1 ELSE rng
              /\ call' = [op |-> "round1_commit", err |-> r.err,
                          signers |-> signers,
                          commitments |-> r.commitments, nonces |-> r.nonces,
                          drawn |-> r.drawn, used |-> {}, sig |-> <<>>,
                          msg |-> <<>>, again |-> FALSE]
    /\ UNCHANGED <<chain, marks, keyed, signedWith, last>>
    /\ UNCHANGED <<config, made, group, probe>>

Round2Sign ==
    /\ held # None
    /\ \E signers \in GroupSignerLists, message \in Messages,
          nonces \in NonceViews(held[1].nonces) :
          \E r \in {round2_sign(signers, held[1].commitments, nonces,
                                message)} :
              /\ call' = [op |-> "round2_sign", err |-> r.err,
                          signers |-> signers,
                          commitments |-> held[1].commitments,
                          nonces |-> nonces, drawn |-> 0, used |-> r.used,
                          sig |-> r.sig, msg |-> message,
                          again |-> \E p \in held[1].passed :
                                       /\ p[1] \in DOMAIN nonces
                                       /\ p[2] # message]
              /\ held' = Some([held[1] EXCEPT
                                  !.passed = @ \cup {<<n, message>> :
                                                        n \in r.used}])
    /\ UNCHANGED <<chain, marks, keyed, rng, signedWith, last>>
    /\ UNCHANGED <<config, made, group, probe>>

Sign ==
    /\ rng + 1 <= MaxCeremonies
    /\ \E signers \in GroupSignerLists, message \in Messages :
          \E r \in {sign(message, signers, rng + 1)} :
              /\ rng' = rng + r.ran
              /\ call' = [op |-> "sign", err |-> r.err, signers |-> signers,
                          commitments |-> <<>>, nonces |-> <<>>,
                          drawn |-> r.drawn, used |-> r.used, sig |-> r.sig,
                          msg |-> message, again |-> FALSE]
    /\ UNCHANGED <<chain, marks, keyed, signedWith, held, last>>
    /\ UNCHANGED <<config, made, group, probe>>

GroupNext ==
    \/ Round1Commit
    \/ Round2Sign
    \/ Sign

GroupSpec == Init /\ [][GroupNext]_vars

(********************** constructing a configuration ***********************)
New ==
    /\ \E threshold \in 0..MaxThreshold, names \in NameLists,
          charter \in Charters :
          \E r \in {FrostGroupConfigNew(threshold, names, charter)} :
              /\ config' = IF r.err = "ok" THEN r.config ELSE config
              /\ made' = [op |-> "new", err |-> r.err,
                          min_signers |-> threshold, names |-> names,
                          charter |-> charter, packages |-> {}]
    /\ UNCHANGED <<chain, marks, keyed, rng, signedWith, held, call, last>>
    /\ UNCHANGED <<group, probe>>

\* Default::default()
Default ==
    /\ \E r \in {FrostGroupConfigNew(2, <<"Alice", "Bob", "Eve">>,
                                     "Default FROST group for testing")} :
          /\ config' = IF r.err = "ok" THEN r.config ELSE config
          /\ made' = [op |-> "default", err |-> r.err, min_signers |-> 2,
                      names |-> <<"Alice", "Bob", "Eve">>,
                      charter |-> "Default FROST group for testing",
                      packages |-> {}]
    /\ UNCHANGED <<chain, marks, keyed, rng, signedWith, held, call, last>>
    /\ UNCHANGED <<group, probe>>

\* new_from_key_material with the config constructed last and any key
\* packages
NewFromKeyMaterial ==
    /\ config # None
    /\ \E key_packages \in SUBSET (1..MaxId) :
          \E r \in {new_from_key_material(config[1], key_packages)} :
              /\ group' = IF r.err = "ok" THEN r.group ELSE group
              /\ made' = [op |-> "new_from_key_material", err |-> r.err,
                          min_signers |-> config[1].min_signers,
                          names |-> <<>>, charter |-> config[1].charter,
                          packages |-> key_packages]
    /\ UNCHANGED <<chain, marks, keyed, rng, signedWith, held, call, last>>
    /\ UNCHANGED <<config, probe>>

\* new_with_trusted_dealer with the config constructed last
NewWithTrustedDealer ==
    /\ config # None
    /\ \E r \in {new_with_trusted_dealer(config[1])} :
          /\ group' = IF r.err = "ok" THEN r.group ELSE group
          /\ made' = [op |-> "new_with_trusted_dealer", err |-> r.err,
                      min_signers |-> config[1].min_signers,
                      names |-> <<>>, charter |-> config[1].charter,
                      packages |-> r.packages]
    /\ UNCHANGED <<chain, marks, keyed, rng, signedWith, held, call, last>>
    /\ UNCHANGED <<config, probe>>

ConfigNext ==
    \/ New
    \/ Default
    \/ NewFromKeyMaterial
    \/ NewWithTrustedDealer

ConfigSpec == Init /\ [][ConfigNext]_vars

(************************** the pure functions ******************************)
\* the longest run of inserts that builds a bundle
MaxInserts == 2

CommitmentValues == {"c1", "c2"}

\* runs of inserts into a BTreeMap<Identifier, SigningCommitments>
InsertRuns ==
    UNION {[1..n -> (1..max_signers) \X CommitmentValues] : n \in 0..MaxInserts}

\* the map a run of inserts leaves: a later insert of an identifier replaces
\* the commitment of an earlier one
Bundle(run) ==
    [id \in {run[i][1] : i \in 1..Len(run)} |->
        run[CHOOSE i \in 1..Len(run) :
                /\ run[i][1] = id
                /\ \A j \in (i + 1)..Len(run) : run[j][1] # id][2]]

\* the parameters of a group and a chain that M0 is made for
GenesisParams ==
    [res : GenesisResolutions, threshold : 1..2,
     names : {<<"alice", "bob">>, <<"bob", "alice">>, <<"alice", "charlie">>,
              <<"alice", "bob", "charlie">>},
     charter : Charters]

\* M0 as new_genesis builds it from the group of a config: the identifiers
\* of participant_names(), with the group's two sizes and the resolution
message_0(params) ==
    LET cfg == FrostGroupConfigNew(params.threshold, params.names,
                                   params.charter).config[1]
        names == participant_names(cfg)
    IN  genesis_message(params.res, config_min_signers(cfg),
                        config_max_signers(cfg),
                        [i \in 1..Len(names) |-> cfg.participants[names[i]]])

PureInit ==
    /\ Fresh
    /\ \/ probe \in [fn : {"commitments_root"}, a : InsertRuns,
                      b : InsertRuns, out : {<<>>}]
       \/ probe \in [fn : {"genesis_message"}, a : GenesisParams,
                      b : GenesisParams, out : {<<>>}]

CommitmentsRoot ==
    /\ probe.fn = "commitments_root"
    /\ probe.out = <<>>
    /\ probe' = [probe EXCEPT !.out = <<commitments_root(Bundle(probe.a)),
                                        commitments_root(Bundle(probe.b))>>]
    /\ UNCHANGED <<chain, marks, keyed, rng, signedWith, held, call, last>>
    /\ UNCHANGED <<config, made, group>>

GenesisMessage ==
    /\ probe.fn = "genesis_message"
    /\ probe.out = <<>>
    /\ probe' = [probe EXCEPT !.out = <<message_0(probe.a),
                                        message_0(probe.b)>>]
    /\ UNCHANGED <<chain, marks, keyed, rng, signedWith, held, call, last>>
    /\ UNCHANGED <<config, made, group>>

PureNext ==
    \/ CommitmentsRoot
    \/ GenesisMessage

PureSpec == PureInit /\ [][PureNext]_vars

(***************************** properties **********************************)
Appends == {"append_mark_with_key", "append_mark_stateless"}

LastMark == marks[Len(marks)]

\* the last call was an append that returned a mark
Appended == last.op \in Appends /\ last.err = "ok"

\* the last call was an append that returned an error
AppendFailed == last.op \in Appends /\ last.err \notin {"ok", "panic"}

\* C1: every mark the chain has emitted precedes the mark emitted after it:
\* m_i.next_key = m_{i+1}.key, the genesis pair included.
C1_Linkage ==
    \A i \in 1..(Len(marks) - 1) : precedes(marks[i], marks[i + 1])

\* C2: the genesis mark has seq 0, every appended mark has the seq of the
\* mark before it plus 1, and a successful append advances seq_next by 1.
C2_SeqMonotone ==
    /\ marks # <<>> => marks[1].seq = 0
    /\ \A i \in 1..(Len(marks) - 1) : marks[i + 1].seq = marks[i].seq + 1
    /\ Appended => chain[1].seq_next = last.pre[1].seq_next + 1

\* C3: an append that returns an error leaves the whole chain state
\* (seq_next, last_date, id, res, the pending receipt and nonces) as it was.
C3_FailureAtomic == AppendFailed => chain = last.pre

\* C4: a nonce set made by a precommit goes through Round-2 once, so no
\* stored nonce computes signature shares for two different messages.
C4_OneTimeNonces == ~last.twoMsgs

\* the key an append derives from the receipt pending before the call
DerivedKey(c) ==
    kdf_next(c.id, c.current_receipt[1].seq, c.current_receipt[1].root, c.res)

\* C5: an append whose key, derived from the pending receipt's root, is not
\* what the previous mark committed to is rejected and emits no mark.
C5_IntegrityGate ==
    (/\ last.op = "append_mark_stateless"
     /\ last.pre[1].current_receipt # None
     /\ ~prev_commitment_matches(
            marks[IF last.err = "ok" THEN Len(marks) - 1 ELSE Len(marks)],
            DerivedKey(last.pre[1])))
    => last.err # "ok"

\* C6: a live chain always holds a pending receipt, and its seq is seq_next
\* (1 right after genesis, n + 1 after the append of mark n).
C6_PendingReceipt ==
    chain # None =>
        /\ chain[1].current_receipt # None
        /\ chain[1].current_receipt[1].seq = chain[1].seq_next

\* C10: an append that is asked for, or would consume a receipt for, a seq
\* other than seq_next is rejected and emits no mark: every mark an append
\* returns carries the seq_next the chain held before the call.
C10_SequenceMismatch ==
    Appended => LastMark.seq = last.pre[1].seq_next

\* the errors the two appends can return for a signer list and a date, over
\* the other inputs a caller may pass
AppendErrs(c, signers, date) ==
    {append_mark_stateless(c, signers, seq, date, h, rng + 1, FALSE).err :
        seq \in SeqChoices(c), h \in ObjHashes}
    \cup {append_mark_with_key(c, signers, date, h, LastMark.next_key, seq,
                               rng + 1, FALSE).err :
             seq \in SeqChoices(c), h \in ObjHashes}

\* C7 as stated: every append dated before the last accepted date returns
\* the date error, and none dated exactly at it does.
C7_AnyAppend ==
    chain # None =>
        \A signers \in SignerLists, date \in Dates :
            /\ date < chain[1].last_date
                   => AppendErrs(chain[1], signers, date) = {DateError}
            /\ date = chain[1].last_date
                   => DateError \notin AppendErrs(chain[1], signers, date)

\* C7: an append naming at least min_signers signers and dated before the
\* last accepted date returns the date error; an append dated exactly at the
\* last accepted date never returns it.
C7_DateBoundary ==
    chain # None =>
        \A signers \in SignerLists, date \in Dates :
            /\ (Len(signers) >= min_signers /\ date < chain[1].last_date)
                   => AppendErrs(chain[1], signers, date) = {DateError}
            /\ date = chain[1].last_date
                   => DateError \notin AppendErrs(chain[1], signers, date)

\* an append by a quorum was turned away for its date
C7_Rejected == last.op = "append_mark_stateless" /\ last.err = DateError

\* C8: the dates of consecutively emitted marks never decrease.
C8_DateMonotone ==
    \A i \in 1..(Len(marks) - 1) : marks[i].date <= marks[i + 1].date

\* an append emitted a mark dated after the mark before it
C8_LaterMark ==
    /\ Len(marks) >= 2
    /\ marks[Len(marks) - 1].date < LastMark.date
    /\ Appended

\* the signer list is the one the pending precommit was made for, and the
\* receipt is for the next sequence number
SamePrecommit(c, participants) ==
    /\ c.current_receipt # None
    /\ c.current_nonces # None
    /\ c.current_receipt[1].seq = c.seq_next
    /\ Len(participants) >= min_signers
    /\ Cardinality(Range(participants)) = Len(participants)
    /\ Range(participants) = DOMAIN c.current_nonces[1]

\* a date the chain accepts and a mark can carry
ValidDate(c, date) ==
    date >= c.last_date /\ timestamp(date) <= MaxMarkSecond

\* C9: an append_mark_stateless turned away for its date leaves the chain as
\* it was, and from there every append with a valid date by the signers of
\* the pending precommit succeeds with the seq_next held before the rejection.
C9_Recovery ==
    /\ (last.op = "append_mark_stateless" /\ last.err = DateError) =>
          /\ chain = last.pre
          /\ \A participants \in SignerLists, date \in Dates,
                h \in ObjHashes :
                (/\ SamePrecommit(chain[1], participants)
                 /\ ValidDate(chain[1], date)
                 /\ chain[1].seq_next < U32Max)
                => LET r == append_mark_stateless(
                                chain[1], participants, chain[1].seq_next,
                                date, h, rng + 1, FALSE)
                   IN  /\ r.err = "ok"
                       /\ r.mark[1].seq = last.pre[1].seq_next
    /\ (/\ last.recovering
        /\ last.op = "append_mark_stateless"
        /\ last.err = "ok")
       => LastMark.seq = last.pre[1].seq_next

\* an append succeeded right after one was turned away for its date
C9_Recovered ==
    /\ last.recovering
    /\ last.op = "append_mark_stateless"
    /\ last.err = "ok"
    /\ LastMark.seq = 1

Emitters == Appends \cup {"new_genesis"}

\* C12: every emitted mark follows, within its operation, a ceremony to which
\* at least min_signers distinct roster participants contributed a share.
C12_ThresholdAuthority ==
    (last.op \in Emitters /\ last.err = "ok") =>
        /\ Cardinality(last.shares) >= min_signers
        /\ \A n \in last.shares : has_participant(n)

\* a mark was emitted with exactly a threshold of distinct contributors
C12_Quorum ==
    /\ last.op \in Emitters
    /\ last.err = "ok"
    /\ Cardinality(last.shares) = min_signers

\* C13: the genesis mark has seq 0 and its key is the chain id, and the
\* chain's id is that key.
C13_Genesis ==
    /\ marks # <<>> =>
          /\ marks[1].seq = 0
          /\ marks[1].key = marks[1].chain_id
          /\ chain # None
          /\ chain[1].id = marks[1].key
    /\ (last.op = "new_genesis" /\ last.err = "ok") => Len(marks) = 1

\* genesis has just returned its mark
C13_Born == last.op = "new_genesis" /\ last.err = "ok" /\ marks[1].seq = 0

\* C14: no operation after genesis changes the chain's id or resolution, and
\* every emitted mark carries the id and resolution of the genesis mark.
C14_IdentityFrozen ==
    /\ \A i \in 1..Len(marks) :
          /\ marks[i].chain_id = marks[1].chain_id
          /\ marks[i].res = marks[1].res
    /\ chain # None =>
          /\ chain[1].id = marks[1].chain_id
          /\ chain[1].res = marks[1].res
    /\ (chain # None /\ last.pre # None) =>
          /\ chain[1].id = last.pre[1].id
          /\ chain[1].res = last.pre[1].res

\* an append failed on a chain that has already appended a mark
C14_LaterFailure == Len(marks) >= 2 /\ AppendFailed

\* C15: the link length is 4, 8, 16, 32 bytes for Low, Medium, Quartile,
\* High; derived keys have that length and so do the key, next key and chain
\* id of every emitted mark.
C15_LinkLength ==
    /\ link_len("Low") = 4
    /\ link_len("Medium") = 8
    /\ link_len("Quartile") = 16
    /\ link_len("High") = 32
    /\ chain # None =>
          \A res \in Resolutions :
              /\ KeyLen(kdf_next(chain[1].id, chain[1].seq_next,
                                 commitments_root(<<>>), res))
                    = link_len(res)
              /\ KeyLen(hkdf_next(link_len(res), last.sig, last.sig,
                                  "KDF:next"))
                    = link_len(res)
    /\ \A i \in 1..Len(marks) :
          /\ KeyLen(marks[i].key) = link_len(marks[i].res)
          /\ KeyLen(marks[i].next_key) = link_len(marks[i].res)
          /\ KeyLen(marks[i].chain_id) = link_len(marks[i].res)

\* a Low-resolution chain has appended a mark with a derived key
C15_ShortLinks ==
    /\ last.op = "append_mark_stateless"
    /\ last.err = "ok"
    /\ LastMark.res = "Low"
    /\ KeyLen(LastMark.key) = 4

\* C16: the key of every appended mark is kdf_next(chain id, seq, root) for
\* the root of the receipt precommitted for that seq, and comes from nowhere
\* else.
C16_SoleKeyDefinition ==
    Appended =>
        /\ last.pre[1].current_receipt # None
        /\ last.pre[1].current_receipt[1].seq = LastMark.seq
        /\ LastMark.key = DerivedKey(last.pre[1])

\* every listed name is in the roster
AllKnown(signers) == \A i \in 1..Len(signers) : has_participant(signers[i])

\* C17: round1_commit with exactly min_signers roster names succeeds; with
\* min_signers - 1 names it fails with InsufficientSigners and returns no
\* commitments and no nonces.
C17_Round1Threshold ==
    call.op = "round1_commit" =>
        /\ (Len(call.signers) = min_signers /\ AllKnown(call.signers))
              => call.err = "ok"
        /\ Len(call.signers) = min_signers - 1
              => /\ call.err = "InsufficientSigners"
                 /\ call.commitments = <<>>
                 /\ call.nonces = <<>>

\* Round 1 succeeded for exactly min_signers roster names
C17_AtThreshold ==
    /\ call.op = "round1_commit"
    /\ call.err = "ok"
    /\ Len(call.signers) = min_signers
    /\ Cardinality(DOMAIN call.commitments) = min_signers

\* the calls that begin with Round 1
Round1Ops == {"round1_commit", "sign"}

\* C18 as stated: round1_commit and sign given any name outside the roster
\* fail with UnknownParticipant, having generated no nonce.
C18_AnyUnknown ==
    (call.op \in Round1Ops /\ ~AllKnown(call.signers)) =>
        /\ call.err = "UnknownParticipant"
        /\ call.drawn = 0
        /\ call.commitments = <<>>
        /\ call.nonces = <<>>

\* C18: round1_commit and sign given at least min_signers names, one of them
\* outside the roster, fail with UnknownParticipant; given fewer names they
\* fail with InsufficientSigners; either way no nonce has been generated and
\* none is returned.
C18_RosterCheck ==
    (call.op \in Round1Ops /\ ~AllKnown(call.signers)) =>
        /\ call.err = IF Len(call.signers) >= min_signers
                      THEN "UnknownParticipant"
                      ELSE "InsufficientSigners"
        /\ call.drawn = 0
        /\ call.commitments = <<>>
        /\ call.nonces = <<>>

\* Round 1 turned a list away for a name outside the roster
C18_UnknownRejected ==
    /\ call.op = "round1_commit"
    /\ call.err = "UnknownParticipant"
    /\ has_participant(call.signers[1])

\* C19: a successful round1_commit returns commitments of at least
\* min_signers distinct roster participants, and nonces of exactly the
\* participants whose ids key the commitments.
C19_Round1Shape ==
    (call.op = "round1_commit" /\ call.err = "ok") =>
        /\ Cardinality(DOMAIN call.commitments) >= min_signers
        /\ DOMAIN call.commitments \subseteq 1..max_signers
        /\ {name_to_id(n) : n \in DOMAIN call.nonces}
              = DOMAIN call.commitments

\* C20: round2_sign never aborts, and given a roster signer without an entry
\* in the nonce map it returns the MissingNonce error.
C20_MissingNonce ==
    call.op = "round2_sign" =>
        /\ call.err # "panic"
        /\ (/\ Len(call.signers) >= min_signers
            /\ AllKnown(call.signers)
            /\ \E n \in Range(call.signers) : n \notin DOMAIN call.nonces)
           => call.err = "MissingNonce"

\* the identifiers a list of roster names stands for
SignerIds(signers) == {name_to_id(n) : n \in Range(signers)}

\* C21: round2_sign yields a signature only when the signers, the ids of the
\* commitment bundle and the names of the nonce map are the same participants,
\* at least min_signers of them; given signers that are a strict subset or a
\* strict superset of the participants of a Round-1 bundle of at least
\* min_signers commitments, passed with its own nonce map, it returns an
\* error and no signature.
C21_ParticipantAgreement ==
    (call.op = "round2_sign" /\ AllKnown(call.signers)) =>
        /\ call.err = "ok"
              => /\ call.sig # <<>>
                 /\ SignerIds(call.signers) = DOMAIN call.commitments
                 /\ Range(call.signers) \subseteq DOMAIN call.nonces
                 /\ Cardinality(DOMAIN call.commitments) >= min_signers
        /\ (/\ Cardinality(DOMAIN call.commitments) >= min_signers
            /\ {name_to_id(n) : n \in DOMAIN call.nonces}
                  = DOMAIN call.commitments
            /\ SignerIds(call.signers) # DOMAIN call.commitments
            /\ \/ SignerIds(call.signers) \subseteq DOMAIN call.commitments
               \/ DOMAIN call.commitments \subseteq SignerIds(call.signers))
              => /\ call.err \notin {"ok", "panic"}
                 /\ call.sig = <<>>

\* C22: a round2_sign given a nonce that an earlier round2_sign was given is
\* rejected; in particular, one given a nonce that has already computed a
\* signature share for another message returns no signature.
C22_OneShotRound2 ==
    (call.op = "round2_sign" /\ call.again) => call.err # "ok"

\* C23: in every state the chain object holds no Round-1 signing nonce;
\* nonces exist only in values returned to the caller.
C23_NoRetainedNonces ==
    chain # None => chain[1].current_nonces = None

\* a list of distinct roster names, at least min_signers of them
DistinctQuorum(signers) ==
    /\ AllKnown(signers)
    /\ Cardinality(Range(signers)) = Len(signers)
    /\ Len(signers) >= min_signers
    /\ Len(signers) <= max_signers

\* the last call was sign, or a round2_sign given the Round-1 output of its
\* own signer list
WholeCeremony ==
    \/ call.op = "sign"
    \/ /\ call.op = "round2_sign"
       /\ DOMAIN call.commitments = SignerIds(call.signers)
       /\ DOMAIN call.nonces = Range(call.signers)

\* C24: for every message and every list of distinct roster participants,
\* min_signers to max_signers of them, the signature of sign, or of
\* round1_commit followed by round2_sign, is accepted by verify for that
\* message and refused by verify for every other message.
C24_SignVerify ==
    (DistinctQuorum(call.signers) /\ WholeCeremony) =>
        /\ call.err = "ok"
        /\ verify(call.msg, call.sig)
        /\ \A m \in Messages \ {call.msg} : ~verify(m, call.sig)

\* the two rounds, run apart by a quorum that is not the first two roster
\* names, gave a signature that verifies
C24_TwoRoundsVerified ==
    /\ call.op = "round2_sign"
    /\ call.signers = <<"bob", "charlie">>
    /\ call.err = "ok"
    /\ verify(call.msg, call.sig)

\* round1_commit followed by round2_sign with the values it returned
Composition(message, signers, s) ==
    LET r1 == round1_commit(signers, s)
    IN  IF r1.err # "ok" THEN [err |-> r1.err, sig |-> <<>>]
        ELSE LET r2 == round2_sign(signers, r1.commitments, r1.nonces, message)
             IN  [err |-> r2.err, sig |-> r2.sig]

\* C25: for every message and signer list, names outside the roster,
\* repeated names and short lists included, sign succeeds exactly when
\* round1_commit followed by round2_sign with its commitments and nonces
\* succeeds, and then both signatures verify for the message.
C25_SignIsComposition ==
    call.op = "sign" =>
        LET two == Composition(call.msg, call.signers, rng + 1)
        IN  /\ (call.err = "ok") <=> (two.err = "ok")
            /\ call.err = "ok" => /\ verify(call.msg, call.sig)
                                  /\ verify(call.msg, two.sig)

\* sign succeeded for a list that names a signer twice
C25_RepeatedName ==
    /\ call.op = "sign"
    /\ call.signers = <<"alice", "alice", "bob">>
    /\ call.err = "ok"

\* the last call constructed a config
Constructed == made.op \in {"new", "default"} /\ made.err = "ok"

Unique(names) == Cardinality(Range(names)) = Len(names)

C27_DuplicateRejected ==
    (made.op = "new" /\ ~Unique(made.names)) => made.err # "ok"

\* C28: every config the constructor returns has
\* 1 <= min_signers() <= max_signers(), where max_signers() counts the
\* participants the config holds.
C28_ThresholdInvariant ==
    config # None =>
        /\ 1 <= config_min_signers(config[1])
        /\ config_min_signers(config[1]) <= config_max_signers(config[1])

\* C29: in every config the constructor returns, the i-th supplied name maps
\* to identifier i, the identifiers assigned are exactly 1..max_signers(),
\* and the name->id and id->name maps are inverse bijections.
C29_IdentifierAssignment ==
    Constructed =>
        LET cfg == config[1]
            ids == {cfg.participants[n] : n \in DOMAIN cfg.participants}
        IN  /\ \A i \in 1..Len(made.names) :
                   cfg.participants[made.names[i]] = i
            /\ ids = 1..config_max_signers(cfg)
            /\ DOMAIN cfg.id_to_name = ids
            /\ \A n \in DOMAIN cfg.participants :
                   participant_name(cfg, cfg.participants[n]) = n
            /\ \A id \in DOMAIN cfg.id_to_name :
                   cfg.participants[cfg.id_to_name[id]] = id

\* C30: participant_ids(), participant_names() and
\* participant_names_string() list the participants in ascending identifier
\* order, that is in the order of the names given to the constructor, sorted
\* by name or not.
C30_CanonicalOrder ==
    (Constructed /\ Unique(made.names)) =>
        /\ participant_ids(config[1]) = [i \in 1..Len(made.names) |-> i]
        /\ participant_names(config[1]) = made.names
        /\ participant_names_string(config[1]) = made.names

\* C31: new_from_key_material succeeds only if the key packages cover
\* exactly the roster of the config; it returns the count error when their
\* number differs from max_signers and an error when a roster identifier has
\* no package; every group constructed has a key package for every roster
\* participant.
C31_KeyMaterialCoverage ==
    /\ made.op = "new_from_key_material" =>
          /\ (made.err = "ok") <=> (made.packages = RosterIds(config[1]))
          /\ Cardinality(made.packages) # config_max_signers(config[1])
                => made.err = ErrExpected
          /\ (/\ Cardinality(made.packages) = config_max_signers(config[1])
              /\ \E id \in RosterIds(config[1]) : id \notin made.packages)
                => made.err = ErrMissing
    /\ group # None =>
          \A n \in DOMAIN group[1].config.participants :
              group[1].config.participants[n] \in group[1].key_packages

\* the right number of packages was refused because one was for a stranger
C31_StrangerRefused ==
    /\ made.op = "new_from_key_material"
    /\ made.err = ErrMissing
    /\ Cardinality(made.packages) = config_max_signers(config[1])
    /\ group # None

\* the (identifier, commitment) pairs of a bundle
PairsOf(commitments) == {<<id, commitments[id]>> : id \in DOMAIN commitments}

\* C32: the root of a bundle depends only on its set of (identifier,
\* commitment) pairs, not on the order of the inserts that built it, and
\* two bundles that differ in a participant or a commitment have different
\* roots.
C32_RootCanonical ==
    (probe.fn = "commitments_root" /\ probe.out # <<>>) =>
        ((probe.out[1] = probe.out[2])
            <=> (PairsOf(Bundle(probe.a)) = PairsOf(Bundle(probe.b))))

\* two bundles of two participants, built in different orders, got one root
C32_Reordered ==
    /\ probe.fn = "commitments_root"
    /\ probe.out # <<>>
    /\ probe.a # probe.b
    /\ Cardinality(DOMAIN Bundle(probe.a)) = 2
    /\ probe.out[1] = probe.out[2]

\* C33: M0 is a function of resolution, threshold, ordered roster names and
\* charter alone, and binds each: parameters that differ in any of them give
\* different M0.
C33_GenesisBinding ==
    (probe.fn = "genesis_message" /\ probe.out # <<>>) =>
        (probe.a # probe.b => probe.out[1] # probe.out[2])

\* a call turned away for its signer count, having done nothing
Untouched(r, c) ==
    /\ r.err = "insufficient signers"
    /\ r.chain = c
    /\ r.mark = None
    /\ r.ran = 0
    /\ r.used = {}
    /\ r.sig = <<>>

ShortLists == {signers \in SignerLists : Len(signers) < min_signers}

\* C34: genesis and append called with fewer signers than the threshold fail
\* with "insufficient signers" before any Round-1 commitment or signing:
\* no chain is created, the chain is left as it was, no mark is emitted.
C34_ChainThreshold ==
    /\ \A signers \in ShortLists, res \in GenesisResolutions,
          date \in GenesisDates, h \in ObjHashes :
          Untouched(new_genesis(res, signers, date, h, rng + 1), None)
    /\ chain # None =>
          \A signers \in ShortLists, date \in Dates, h \in ObjHashes,
             seq \in SeqChoices(chain[1]) :
             /\ Untouched(append_mark_stateless(chain[1], signers, seq, date,
                                                h, rng + 1, FALSE), chain)
             /\ Untouched(append_mark_with_key(chain[1], signers, date, h,
                                               LastMark.next_key, seq,
                                               rng + 1, FALSE), chain)
    /\ last.err = "insufficient signers" =>
          /\ last.shares = {}
          /\ last.sig = <<>>
          /\ chain = last.pre

\* a live chain turned an append away for its signer count
C34_ShortRefused ==
    /\ last.op = "append_mark_stateless"
    /\ last.err = "insufficient signers"
    /\ chain # None
    /\ chain = last.pre

\* C35: after an append fails, the receipt and nonces that were pending for
\* its seq are discarded: no later append succeeds by consuming that same
\* receipt, a fresh precommit comes first; in particular not after a failure
\* in which the pending nonces had computed a signature share.
C35_DiscardOnFailure ==
    (last.op = "append_mark_stateless" /\ last.retry) => last.err # "ok"

\* a precommit and then an append by a quorum, for the expected sequence
\* number
NextAppend(c, date, obj_hash, wrap) ==
    LET p == precommit_next_mark(c, Quorum, c.seq_next, rng + 1)
    IN  append_mark_stateless(p.chain[1], Quorum, c.seq_next, date, obj_hash,
                              rng + 2, wrap)

\* C36: from every live state, after failed appends and at the largest
\* sequence number too, a precommit and an append with a quorum and a date
\* the chain accepts succeed and leave the chain one sequence number further:
\* the chain never gets stuck and seq_next never wraps around.
C36_NoTerminalState ==
    chain # None =>
        \E date \in Dates, obj_hash \in ObjHashes :
            /\ ValidDate(chain[1], date)
            /\ \A wrap \in WrapChoices(chain[1].seq_next) :
                  LET r == NextAppend(chain[1], date, obj_hash, wrap)
                  IN  /\ r.err = "ok"
                      /\ r.chain[1].seq_next > chain[1].seq_next

\* an append of the given signers reports the date error for every regressed
\* date, the sequence error for every other date with a sequence number that
\* is not seq_next, whatever the pending receipt, and neither commits nor
\* signs in either case
ChecksInOrder(c, signers) ==
    \A date \in Dates, seq \in SeqChoices(c), h \in ObjHashes :
        LET r == append_mark_stateless(c, signers, seq, date, h, rng + 1,
                                       FALSE)
        IN  /\ date < c.last_date
                  => r.err = DateError /\ r.ran = 0 /\ r.used = {}
            /\ (date >= c.last_date /\ seq # c.seq_next)
                  => /\ r.err = "sequence number mismatch"
                     /\ r.ran = 0
                     /\ r.used = {}

\* C37 as stated: every append checks the date before the sequence number,
\* and the sequence number before the receipt, the key and the signing.
C37_AnyOrder ==
    chain # None => \A signers \in SignerLists : ChecksInOrder(chain[1], signers)

\* C37: an append naming at least min_signers signers checks the date before
\* the sequence number, and the sequence number before any receipt lookup,
\* key derivation or signing: with a regressed date and a wrong sequence
\* number or receipt it reports the date error, and no Round-1 commitment or
\* Round-2 signing is done when either check fails.
C37_CheckOrder ==
    chain # None =>
        \A signers \in SignerLists :
            Len(signers) >= min_signers => ChecksInOrder(chain[1], signers)

\* an append with a regressed date and no receipt pending was turned away
\* for its date
C37_DateBeforeReceipt ==
    /\ last.op = "append_mark_stateless"
    /\ last.err = DateError
    /\ last.pre[1].current_receipt = None

\* the key the pending receipt of a chain derives for its sequence number
PendingKey(c) ==
    kdf_next(c.id, c.seq_next, c.current_receipt[1].root, c.res)

\* C38: in every state after genesis the key derived from the root of the
\* pending receipt is the next_key of the last mark emitted; in particular
\* no precommit_next_mark, repeated or out of turn, replaces a pending receipt
\* the last mark committed to with one it did not commit to.
C38_Coupling ==
    (/\ last.op = "precommit_next_mark"
     /\ last.err = "ok"
     /\ last.pre[1].current_receipt # None
     /\ PendingKey(last.pre[1]) = LastMark.next_key)
    => PendingKey(chain[1]) = LastMark.next_key

\* C39: the stored receipt and the stored nonces are both absent or both
\* present; when present, the names that key the nonces stand for exactly
\* the identifiers that key the receipt's commitments, and the receipt's
\* root is the commitments_root of its commitments.
C39_ReceiptNoncePairing ==
    chain # None =>
        /\ (chain[1].current_receipt = None)
              <=> (chain[1].current_nonces = None)
        /\ chain[1].current_receipt # None =>
              /\ {name_to_id(n) : n \in DOMAIN chain[1].current_nonces[1]}
                    = DOMAIN chain[1].current_receipt[1].commitments
              /\ chain[1].current_receipt[1].root
                    = commitments_root(chain[1].current_receipt[1].commitments)

\* a precommit has stored a receipt and the nonces of its two signers
C39_Stored ==
    /\ last.op = "precommit_next_mark"
    /\ last.err = "ok"
    /\ chain[1].current_receipt # None
    /\ Cardinality(DOMAIN chain[1].current_nonces[1]) = 2

====
